---------------------------- MODULE Spec2Model ----------------------------
(***************************************************************************)
(* A model of the two components of the repository:                        *)
(*                                                                         *)
(*   - stan::mcmc::walk_move_ensemble (walk_move_ensemble.hpp): one sweep  *)
(*     of ensemble_transition over the walkers, with choose_walkers and    *)
(*     mean_walkers (specifications Spec and FairSpec);                    *)
(*   - stan::io::writer (writer.hpp): the unconstraining transforms that   *)
(*     append to the writer's buffers (specification WriterSpec).          *)
(*                                                                         *)
(* Real numbers.  Walker positions are exact rationals <<num, den>>.       *)
(* Log-densities and acceptance probabilities are IEEE doubles abstracted  *)
(* to records [k, v]: a finite log-density n is [k |-> "fin", v |-> n];    *)
(* the value exp(d) of a finite d is [k |-> "exp", v |-> d]; zero, the     *)
(* infinities and not-a-number have their own kinds.                       *)
(***************************************************************************)
EXTENDS Integers, Sequences, FiniteSets, TLC

(***************************************************************************)
(* Bounds of the model.                                                    *)
(***************************************************************************)
MaxWalkers == 3
Dim == 1
MaxCalls == 2
MaxK == 3

(***************************************************************************)
(* The writer's reals lie on a grid of 0.5E-8: One is the literal 1.0 and   *)
(* CONSTRAINT_TOLERANCE the writer's 1E-8.                                 *)
(***************************************************************************)
One == 200000000
CONSTRAINT_TOLERANCE == 2
Half == One \div 2

(***************************************************************************)
(* Exact rational arithmetic (Eigen's double arithmetic on the positions).  *)
(***************************************************************************)
Abs(n) == IF n < 0 THEN -n ELSE n

RECURSIVE GCD(_, _)
GCD(a, b) == IF b = 0 THEN a ELSE GCD(b, a % b)

Norm(n, d) ==
  LET g == GCD(Abs(n), Abs(d))
      s == IF d < 0 THEN -1 ELSE 1
  IN  <<(s * n) \div g, (s * d) \div g>>

RInt(n) == <<n, 1>>

\* Each operation binds its pair of arguments once (p), so that TLC evaluates
\* an argument once however often the body reads it.
RAdd(a, b) ==
  CHOOSE r \in { Norm(p[1][1] * p[2][2] + p[2][1] * p[1][2], p[1][2] * p[2][2]) :
                   p \in {<<a, b>>} } : TRUE
RSub(a, b) ==
  CHOOSE r \in { Norm(p[1][1] * p[2][2] - p[2][1] * p[1][2], p[1][2] * p[2][2]) :
                   p \in {<<a, b>>} } : TRUE
RMul(a, b) ==
  CHOOSE r \in { Norm(p[1][1] * p[2][1], p[1][2] * p[2][2]) :
                   p \in {<<a, b>>} } : TRUE
RDivInt(a, n) ==
  CHOOSE r \in { Norm(p[1][1], p[1][2] * p[2]) : p \in {<<a, n>>} } : TRUE

VZero(d) == [c \in 1..d |-> RInt(0)]
VAdd(x, y) ==
  CHOOSE r \in { [c \in 1..Len(p[1]) |-> RAdd(p[1][c], p[2][c])] :
                   p \in {<<x, y>>} } : TRUE
VSub(x, y) ==
  CHOOSE r \in { [c \in 1..Len(p[1]) |-> RSub(p[1][c], p[2][c])] :
                   p \in {<<x, y>>} } : TRUE
VScale(z, x) ==
  CHOOSE r \in { [c \in 1..Len(p[2]) |-> RMul(p[1], p[2][c])] :
                   p \in {<<z, x>>} } : TRUE

(***************************************************************************)
(* Doubles of the log-density and of the acceptance probability.           *)
(***************************************************************************)
NaN == [k |-> "nan", v |-> 0]
PosInf == [k |-> "inf", v |-> 1]
NegInf == [k |-> "inf", v |-> -1]
Fin(n) == [k |-> "fin", v |-> n]
Zero == [k |-> "zero", v |-> 0]
EXP(d) == [k |-> "exp", v |-> d]
ProbOne == EXP(0)

isnan(x) == x.k = "nan"

\* a - b on log-densities: inf - inf of one sign and anything with a NaN is NaN
FSub(a, b) ==
  IF isnan(a) \/ isnan(b) THEN NaN
  ELSE IF a.k = "inf" THEN (IF b.k = "inf" /\ b.v = a.v THEN NaN ELSE a)
  ELSE IF b.k = "inf" THEN [k |-> "inf", v |-> -b.v]
  ELSE Fin(a.v - b.v)

\* std::exp
FExp(x) ==
  IF isnan(x) THEN NaN
  ELSE IF x.k = "inf" THEN (IF x.v > 0 THEN PosInf ELSE Zero)
  ELSE EXP(x.v)

\* a > b on the values exp produces and the uniform draws: false with a NaN
FGreater(a, b) ==
  IF isnan(a) \/ isnan(b) THEN FALSE
  ELSE IF a.k = "inf" THEN b.k # "inf"
  ELSE IF b.k = "inf" THEN FALSE
  ELSE IF a.k = "zero" THEN FALSE
  ELSE IF b.k = "zero" THEN TRUE
  ELSE a.v > b.v

(***************************************************************************)
(* What the collaborators of the sampler may return.                       *)
(***************************************************************************)
\* the values the log-density oracle of the host model may take
LogProbValues == {NaN, NegInf, PosInf, Fin(0), Fin(-2)}
\* stan::prob::normal_rng(0.0, 1.0, rng)
NormalDraws == {0, 1}
\* _rand_uniform(): a value of [0, 1)
UniformDraws == {Zero, EXP(-1)}

VARIABLES
  cur_states,         \* the current-state buffer: walker -> position
  new_states,         \* the next-state buffer
  logp,               \* the log-density buffer
  accept_prob,        \* the acceptance-probability buffer
  pc,                 \* the place of ensemble_transition's control
  i,                  \* the walker loop's index
  logp0,              \* local: the log-density of cur_states[i]
  rand_walkers,       \* local: the companions (choose_walkers' walkers)
  ci,                 \* choose_walkers' for-loop index
  mean_rand_walkers,  \* local: the companions' mean
  z_draws,            \* the normal draws of the proposal, in order
  logp_new,           \* what log_prob returned for the proposal
  u_draw,             \* the uniform draw of the accept test
  visited,            \* the walkers whose body has run, in order
  density,            \* the host model: the log-density of each region
  caller_r,           \* the caller's real buffer, given to the constructor
  caller_i,           \* the caller's integer buffer, given to the constructor
  data_r_,            \* writer::data_r_
  data_i_,            \* writer::data_i_
  failed,             \* an assert of the writer has failed (abort)
  init_r,             \* the caller's real buffer as it was at construction
  outputs,            \* the values the calls have pushed, in order
  calls,              \* the number of unconstrain calls made
  last_call           \* the last call: its transform, its size, its start

svars == <<density, cur_states, new_states, logp, accept_prob, pc, i, logp0,
           rand_walkers, ci, mean_rand_walkers, z_draws, logp_new, u_draw,
           visited>>

wvars == <<caller_r, caller_i, data_r_, data_i_, failed, init_r, outputs,
           calls, last_call>>

vars == <<svars, wvars>>

NumWalkers == Cardinality(DOMAIN cur_states)

NoValue == [k |-> "none", v |-> 0]

\* the ensembles a sweep starts from: walker w at (a*w, a*w + 1, ...)
Ensembles ==
  { [w \in 0..(n - 1) |-> [c \in 1..Dim |-> RInt(a * w + c - 1)]] :
      n \in 1..MaxWalkers, a \in 0..1 }

\* The host model's log-density: a function of the position, fixed for the
\* sweep.  It is a step function of the first coordinate, with any of the
\* values a log-density may take on each side of the step.
Densities == [{"low", "high"} -> LogProbValues]

RLeq(a, b) == a[1] * b[2] <= b[1] * a[2]

log_prob(x) == IF RLeq(x[1], RInt(0)) THEN density["low"] ELSE density["high"]

NoCall == [op |-> "none", size |-> 0, before |-> <<>>]

\* no writer is in use
NoWriter ==
  /\ caller_r = <<>>
  /\ caller_i = <<>>
  /\ data_r_ = <<>>
  /\ data_i_ = <<>>
  /\ failed = FALSE
  /\ init_r = <<>>
  /\ outputs = <<>>
  /\ calls = 0
  /\ last_call = NoCall

Init ==
  /\ NoWriter
  /\ density \in Densities
  /\ cur_states \in Ensembles
  /\ new_states = [w \in DOMAIN cur_states |-> VZero(Dim)]
  /\ logp = [w \in DOMAIN cur_states |-> Fin(0)]
  /\ accept_prob = [w \in DOMAIN cur_states |-> Zero]
  /\ pc = "for"
  /\ i = 0
  /\ logp0 = NoValue
  /\ rand_walkers = <<>>
  /\ ci = 0
  /\ mean_rand_walkers = VZero(Dim)
  /\ z_draws = <<>>
  /\ logp_new = NoValue
  /\ u_draw = NoValue
  /\ visited = <<>>

(***************************************************************************)
(* choose_walkers                                                          *)
(***************************************************************************)
\* (faulty variant of Degenerate: a set of two companions is redrawn too)
DegenerateUpToTwo(walkers) == Len(walkers) <= 2

\* the while condition: the set is redrawn while it has at most one element
Degenerate(walkers) == Len(walkers) <= 1

\* (faulty variant of WalkerNumber: the mover's own position is not skipped)
WalkerNumberOffByOne(c, index) == IF c > index THEN c + 2 ELSE c + 1

\* the 1-based walker number of the coin at position c, for the mover index
WalkerNumber(c, index) == IF c >= index THEN c + 2 ELSE c + 1

\* while (walkers.size() <= 1) { walkers.resize(0); for (i = 0; ...
ChooseWhile ==
  /\ pc = "while"
  /\ IF Degenerate(rand_walkers)
       THEN /\ rand_walkers' = <<>>
            /\ ci' = 0
            /\ pc' = "bernoulli"
       ELSE /\ pc' = "propose"
            /\ UNCHANGED <<rand_walkers, ci>>
  /\ UNCHANGED <<density, cur_states, new_states, logp, accept_prob, i, logp0,
                 mean_rand_walkers, z_draws, logp_new, u_draw, visited>>
  /\ UNCHANGED wvars

\* one turn of the for loop: a coin, and the push_back when it succeeds
Bernoulli(temp) ==
  /\ pc = "bernoulli"
  /\ ci < NumWalkers - 1
  /\ rand_walkers' = IF temp THEN Append(rand_walkers, WalkerNumber(ci, i))
                     ELSE rand_walkers
  /\ ci' = ci + 1
  /\ UNCHANGED <<density, cur_states, new_states, logp, accept_prob, pc, i, logp0,
                 mean_rand_walkers, z_draws, logp_new, u_draw, visited>>
  /\ UNCHANGED wvars

\* the for loop's exit, back to the while condition
ChooseForExit ==
  /\ pc = "bernoulli"
  /\ ci >= NumWalkers - 1
  /\ pc' = "while"
  /\ UNCHANGED <<density, cur_states, new_states, logp, accept_prob, i, logp0,
                 rand_walkers, ci, mean_rand_walkers, z_draws, logp_new,
                 u_draw, visited>>
  /\ UNCHANGED wvars

(***************************************************************************)
(* mean_walkers                                                            *)
(***************************************************************************)
RECURSIVE MeanCoord(_, _, _, _)
\* mean[c] after j turns of the inner loop: mean[c] += states[..](c) / size
MeanCoord(walker_index, states, c, j) ==
  IF j = 0 THEN RInt(0)
  ELSE RAdd(MeanCoord(walker_index, states, c, j - 1),
            RDivInt(states[walker_index[j] - 1][c], Len(walker_index)))

mean_walkers(walker_index, states) ==
  [c \in 1..Len(states[0]) |->
     MeanCoord(walker_index, states, c, Len(walker_index))]

(***************************************************************************)
(* ensemble_transition                                                     *)
(***************************************************************************)
\* for (int i = 0; i < cur_states.size(); i++): the test, and the body's entry
ForTest ==
  /\ pc = "for"
  /\ pc' = IF i < NumWalkers THEN "logp0" ELSE "done"
  /\ logp0' = NoValue
  /\ rand_walkers' = <<>>
  /\ ci' = 0
  /\ mean_rand_walkers' = VZero(Dim)
  /\ z_draws' = <<>>
  /\ logp_new' = NoValue
  /\ u_draw' = NoValue
  /\ UNCHANGED <<density, cur_states, new_states, logp, accept_prob, i, visited>>
  /\ UNCHANGED wvars

\* double logp0 = this->log_prob(cur_states[i]); then choose_walkers is entered
LogProb0 ==
  /\ pc = "logp0"
  /\ logp0' = log_prob(cur_states[i])
  /\ rand_walkers' = <<>>
  /\ pc' = "while"
  /\ UNCHANGED <<density, cur_states, new_states, logp, accept_prob, i, ci,
                 mean_rand_walkers, z_draws, logp_new, u_draw, visited>>
  /\ UNCHANGED wvars

RECURSIVE ProposalAfter(_, _, _, _, _, _)
\* new_states[i], from `start`, after j turns of the loop of normal draws
ProposalAfter(states, start, walkers, mean, zs, j) ==
  IF j = 0 THEN start
  ELSE VAdd(ProposalAfter(states, start, walkers, mean, zs, j - 1),
            VScale(RInt(zs[j]), VSub(states[walkers[j] - 1], mean)))

\* (faulty variant of CompanionSource: the companions are read where the walkers
\* before i have already moved)
CompanionSourceMoved == [w \in DOMAIN cur_states |->
                          IF w < i THEN new_states[w] ELSE cur_states[w]]

\* the buffer the companions' positions are read from
CompanionSource == cur_states

\* mean_walkers, new_states[i] = cur_states[i] and the loop of normal draws
Propose(zs) ==
  /\ pc = "propose"
  /\ mean_rand_walkers' = mean_walkers(rand_walkers, CompanionSource)
  /\ new_states' =
       [new_states EXCEPT ![i] =
          ProposalAfter(CompanionSource, cur_states[i], rand_walkers,
                        mean_rand_walkers', zs, Len(rand_walkers))]
  /\ z_draws' = zs
  /\ pc' = "log_prob"
  /\ UNCHANGED <<density, cur_states, logp, accept_prob, i, logp0, rand_walkers, ci,
                 logp_new, u_draw, visited>>
  /\ UNCHANGED wvars

\* if (isnan(logp(i))) logp(i) = infinity
NanToInf(x) == IF isnan(x) THEN PosInf ELSE x

\* accept_prob(i) > 1 ? 1 : accept_prob(i)
ClampToOne(a) == IF FGreater(a, ProbOne) THEN ProbOne ELSE a

\* logp(i) = log_prob(new_states[i]), the substitution, and accept_prob(i)
LogProbNew ==
  /\ pc = "log_prob"
  /\ logp_new' = log_prob(new_states[i])
  /\ logp' = [logp EXCEPT ![i] = NanToInf(logp_new')]
  /\ accept_prob' =
       [accept_prob EXCEPT ![i] = ClampToOne(FExp(FSub(logp'[i], logp0)))]
  /\ pc' = "uniform"
  /\ UNCHANGED <<density, cur_states, new_states, i, logp0, rand_walkers, ci,
                 mean_rand_walkers, z_draws, u_draw, visited>>
  /\ UNCHANGED wvars

\* new_states[i] = cur_states[i] of the rejection
RejectedStates(news, curs, index) == [news EXCEPT ![index] = curs[index]]

\* (faulty variant of RejectedLogp: the rejection leaves the proposal's log-density)
RejectedLogpKept(lp, index, value) == lp

\* logp(i) = logp0 of the rejection
RejectedLogp(lp, index, value) == [lp EXCEPT ![index] = value]

\* if (_rand_uniform() > accept_prob(i)) { ... }, and the loop's i++
AcceptTest(u) ==
  /\ pc = "uniform"
  /\ u_draw' = u
  /\ IF FGreater(u, accept_prob[i])
       THEN /\ new_states' = RejectedStates(new_states, cur_states, i)
            /\ logp' = RejectedLogp(logp, i, logp0)
       ELSE UNCHANGED <<new_states, logp>>
  /\ visited' = Append(visited, i)
  /\ i' = i + 1
  /\ pc' = "for"
  /\ UNCHANGED <<density, cur_states, accept_prob, logp0, rand_walkers, ci,
                 mean_rand_walkers, z_draws, logp_new>>
  /\ UNCHANGED wvars

Next ==
  \/ ForTest
  \/ LogProb0
  \/ ChooseWhile
  \/ \E temp \in BOOLEAN : Bernoulli(temp)
  \/ ChooseForExit
  \/ \E zs \in [1..Len(rand_walkers) -> NormalDraws] : Propose(zs)
  \/ LogProbNew
  \/ \E u \in UniformDraws : AcceptTest(u)

Spec == Init /\ [][Next]_vars

\* The sweep is sequential code: it takes its next step.  The coins are fair:
\* a coin that is drawn again and again at one place of choose_walkers' loop
\* (the same position, the same companions so far) succeeds there eventually.
FairSpec ==
  /\ Spec
  /\ WF_vars(Next)
  /\ \A c \in 0..(MaxWalkers - 2) : \A n \in 0..1 :
       SF_vars(Bernoulli(TRUE) /\ ci = c /\ Len(rand_walkers) = n)

(***************************************************************************)
(* The claims about the sampler.                                           *)
(***************************************************************************)
Walkers == DOMAIN cur_states

RECURSIVE SumOfCompanions(_, _, _)
SumOfCompanions(states, walkers, j) ==
  IF j = 0 THEN VZero(Len(states[0]))
  ELSE VAdd(SumOfCompanions(states, walkers, j - 1), states[walkers[j] - 1])

\* the arithmetic mean of the companions' positions
CompanionMean(states, walkers) ==
  VScale(<<1, Len(walkers)>>, SumOfCompanions(states, walkers, Len(walkers)))

RECURSIVE WalkSum(_, _, _, _, _)
WalkSum(states, walkers, zs, mean, j) ==
  IF j = 0 THEN VZero(Len(states[0]))
  ELSE VAdd(WalkSum(states, walkers, zs, mean, j - 1),
            VScale(RInt(zs[j]), VSub(states[walkers[j] - 1], mean)))

\* cur_states[i] + sum over the companions j of z_j * (cur_states[j] - mean)
WalkProposal(states, index, walkers, zs) ==
  LET mean == CompanionMean(states, walkers)
  IN  VAdd(states[index], WalkSum(states, walkers, zs, mean, Len(walkers)))

InUnitInterval(a) == a.k = "zero" \/ (a.k = "exp" /\ a.v <= 0)

\* the body of the walker before i has just ended; its locals are still there
BodyEnded == pc = "for" /\ i >= 1

\* C2: for N >= 3 walkers and every mover i, the set choose_walkers returns
\* has at least 2 elements, all of them walker numbers of 1..N, none twice,
\* none the mover's own number i + 1.
C2_ChosenWalkers ==
  (pc = "propose" /\ NumWalkers >= 3) =>
    /\ Len(rand_walkers) >= 2
    /\ \A j \in 1..Len(rand_walkers) :
         /\ rand_walkers[j] \in 1..NumWalkers
         /\ rand_walkers[j] # i + 1
         /\ \A h \in 1..Len(rand_walkers) :
              h # j => rand_walkers[h] # rand_walkers[j]

\* choose_walkers returned for the middle walker: both others, around it
C2_Witness ==
  /\ pc = "propose"
  /\ NumWalkers = MaxWalkers
  /\ i = 1
  /\ rand_walkers[1] = 1
  /\ rand_walkers[2] = 3

\* C3: a sweep over 1 or 2 walkers never enters choose_walkers' retry loop.
C3_SmallEnsembleRejected ==
  NumWalkers < 3 => pc \notin {"while", "bernoulli"}

\* C4: with N >= 3 walkers and fair coins a sweep ends, having run the body
\* of every walker 0..N-1 exactly once, in index order.
C4_SweepEnds ==
  (NumWalkers >= 3) ~>
    (pc = "done" /\ visited = [w \in 1..NumWalkers |-> w - 1])

C4_Witness ==
  /\ pc = "done"
  /\ NumWalkers >= 3
  /\ visited = [w \in 1..NumWalkers |-> w - 1]

\* C5: after a sweep every accept_prob[i] is a value of [0, 1].
C5_AcceptProbInUnit ==
  pc = "done" => \A w \in Walkers : InUnitInterval(accept_prob[w])

\* C7: no step of a sweep changes the current-state buffer; a step of walker
\* i changes no slot but i of the next-state, log-density and acceptance
\* buffers; and the proposal is computed from current-state positions alone.
C7_Frame ==
  [][ /\ cur_states' = cur_states
      /\ \A w \in Walkers :
           w # i => /\ new_states'[w] = new_states[w]
                    /\ logp'[w] = logp[w]
                    /\ accept_prob'[w] = accept_prob[w]
      /\ pc = "propose" =>
           new_states'[i] = WalkProposal(cur_states, i, rand_walkers, z_draws')
    ]_vars

\* walker 0 moved, and walker 1 was then rejected after a proposal that moved
C7_Witness ==
  /\ pc = "for"
  /\ i = 2
  /\ new_states[0] # cur_states[0]
  /\ FGreater(u_draw, accept_prob[1])
  /\ WalkProposal(cur_states, 1, rand_walkers, z_draws) # cur_states[1]

\* C9: rejected (the uniform draw exceeds accept_prob[i]): new_states[i] is
\* cur_states[i] and logp[i] is log_prob(cur_states[i]).  Otherwise
\* new_states[i] is the proposal and logp[i] its log-density, infinity for a
\* not-a-number.  Either way accept_prob[i] is the computed probability.
C9_AcceptReject ==
  BodyEnded =>
    \A w \in {i - 1} :
    \A proposal \in {WalkProposal(cur_states, w, rand_walkers, z_draws)} :
    \A lp \in {IF isnan(log_prob(proposal)) THEN PosInf
                ELSE log_prob(proposal)} :
      /\ IF FGreater(u_draw, accept_prob[w])
            THEN /\ new_states[w] = cur_states[w]
                 /\ logp[w] = log_prob(cur_states[w])
            ELSE /\ new_states[w] = proposal
                 /\ logp[w] = lp
      /\ accept_prob[w] =
           ClampToOne(FExp(FSub(lp, log_prob(cur_states[w]))))

\* a rejection of a proposal that moved and whose log-density differs
C9_Witness ==
  /\ BodyEnded
  /\ FGreater(u_draw, accept_prob[i - 1])
  /\ WalkProposal(cur_states, i - 1, rand_walkers, z_draws) # cur_states[i - 1]
  /\ logp_new # logp0

\* C10: a not-a-number log-density of the proposal: the proposal is kept,
\* logp[i] is positive infinity and accept_prob[i] is 1.
C10_NanAlwaysAccepted ==
  (BodyEnded /\ isnan(logp_new)) =>
    /\ new_states[i - 1] =
         WalkProposal(cur_states, i - 1, rand_walkers, z_draws)
    /\ logp[i - 1] = PosInf
    /\ accept_prob[i - 1] = ProbOne

(***************************************************************************)
(* stan::io::writer                                                        *)
(*                                                                         *)
(* A real of the buffer is a record [f, x, y]: the function applied and    *)
(* its arguments, in grid units.  The asserts are compiled in: a failed    *)
(* assert aborts, after the pushes that came before it.                    *)
(***************************************************************************)
Real(f, x, y) == [f |-> f, x |-> x, y |-> y]
Plain(y) == Real("id", y, 1)
log(q) == Real("log", q, 1)
logit(n, d) == Real("logit", n, d)
atanh(y) == Real("atanh", y, One)
\* log(y[i]) - log_y_k
LogMinusLog(a, b) == Real("log-log", a, b)

\* no sampler is in use
NoSampler ==
  /\ density = [r \in {"low", "high"} |-> Fin(0)]
  /\ cur_states = <<>>
  /\ new_states = <<>>
  /\ logp = <<>>
  /\ accept_prob = <<>>
  /\ pc = "done"
  /\ i = 0
  /\ logp0 = NoValue
  /\ rand_walkers = <<>>
  /\ ci = 0
  /\ mean_rand_walkers = VZero(Dim)
  /\ z_draws = <<>>
  /\ logp_new = NoValue
  /\ u_draw = NoValue
  /\ visited = <<>>

\* the buffers a caller may hand to the constructor: empty ones, used ones
Callers == {[r |-> <<>>, i |-> <<>>], [r |-> <<Plain(Half)>>, i |-> <<7>>]}

\* writer(data_r, data_i): the members data_r_ and data_i_ are vectors, not
\* references, so each is initialised as a copy of the caller's vector
WriterInit ==
  /\ NoSampler
  /\ \E c \in Callers : caller_r = c.r /\ caller_i = c.i
  /\ data_r_ = caller_r
  /\ data_i_ = caller_i
  /\ failed = FALSE
  /\ init_r = caller_r
  /\ outputs = <<>>
  /\ calls = 0
  /\ last_call = NoCall

\* the inputs of the calls
Scalars == {-Half, Half, One + Half}
Bounds == {0, One}
Entries == {-Half, Half, One}
Vectors == UNION { [1..n -> Entries] : n \in 0..MaxK }
Matrices == [rows : 0..MaxK, cols : 0..MaxK]

\* the writer can be called: no assert has aborted the program
Callable == ~failed /\ calls < MaxCalls

\* The effect of one call: the pushes `out` made before the call returned
\* (ok) or an assert failed.
Call(op, size, out, ok) ==
  /\ data_r_' = data_r_ \o out
  /\ failed' = ~ok
  /\ outputs' = outputs \o out
  /\ calls' = calls + 1
  /\ last_call' = [op |-> op, size |-> size, before |-> data_r_]
  /\ UNCHANGED <<caller_r, caller_i, data_i_, init_r>>
  /\ UNCHANGED svars

\* the pushes of a scalar transform: none when its asserts fail
Pushed(ok, value) == IF ok THEN <<value>> ELSE <<>>

scalar_unconstrain(y) ==
  /\ Callable
  /\ Call("scalar", 1, <<Plain(y)>>, TRUE)

scalar_pos_unconstrain(y) ==
  /\ Callable
  /\ Call("scalar_pos", 1, Pushed(y >= 0, log(y)), y >= 0)

scalar_lb_unconstrain(lb, y) ==
  /\ Callable
  /\ Call("scalar_lb", 1, Pushed(y >= lb, log(y - lb)), y >= lb)

scalar_ub_unconstrain(ub, y) ==
  /\ Callable
  /\ Call("scalar_ub", 1, Pushed(y <= ub, log(ub - y)), y <= ub)

scalar_lub_unconstrain(lb, ub, y) ==
  /\ Callable
  /\ Call("scalar_lub", 1, Pushed(lb <= y /\ y <= ub, logit(y - lb, ub - lb)),
       lb <= y /\ y <= ub)

corr_unconstrain(y) ==
  /\ Callable
  /\ Call("corr", 1, Pushed(-One <= y /\ y <= One, atanh(y)),
       -One <= y /\ y <= One)

prob_unconstrain(y) ==
  /\ Callable
  /\ Call("prob", 1, Pushed(0 <= y /\ y <= One, logit(y, One)),
       0 <= y /\ y <= One)

RECURSIVE PosOrderedLoop(_, _, _)
\* the for loop of pos_ordered_unconstrain from index n on (1-based here),
\* after the pushes `out`: it stops at the first failed assert
PosOrderedLoop(y, n, out) ==
  IF n > Len(y) THEN [out |-> out, ok |-> TRUE]
  ELSE IF ~(y[n] >= y[n - 1]) THEN [out |-> out, ok |-> FALSE]
  ELSE PosOrderedLoop(y, n + 1, Append(out, log(y[n] - y[n - 1])))

PosOrdered(y) ==
  IF Len(y) = 0 THEN [out |-> <<>>, ok |-> TRUE]
  ELSE IF ~(y[1] >= 0) THEN [out |-> <<>>, ok |-> FALSE]
  ELSE PosOrderedLoop(y, 2, <<log(y[1])>>)

pos_ordered_unconstrain(y) ==
  /\ Callable
  /\ Call("pos_ordered", Len(y), PosOrdered(y).out, PosOrdered(y).ok)

RECURSIVE Sum(_, _)
Sum(y, n) == IF n = 0 THEN 0 ELSE Sum(y, n - 1) + y[n]

\* (faulty variant of k_minus_1: the loop runs over the last entry too)
k_minus_1_off(y) == Len(y)

\* unsigned int k_minus_1 = y.size() - 1: the number of turns of the loop
k_minus_1(y) == Len(y) - 1

RECURSIVE SimplexLoop(_, _, _)
\* the for loop of simplex_unconstrain from index n on (1-based here)
SimplexLoop(y, n, out) ==
  IF n > k_minus_1(y) THEN [out |-> out, ok |-> TRUE]
  ELSE IF ~(y[n] >= 0) THEN [out |-> out, ok |-> FALSE]
  ELSE SimplexLoop(y, n + 1, Append(out, LogMinusLog(y[n], y[Len(y)])))

Simplex(y) ==
  IF ~(Len(y) > 0) THEN [out |-> <<>>, ok |-> FALSE]
  ELSE IF ~(Abs(One - Sum(y, Len(y))) < CONSTRAINT_TOLERANCE)
    THEN [out |-> <<>>, ok |-> FALSE]
  ELSE SimplexLoop(y, 1, <<>>)

simplex_unconstrain(y) ==
  /\ Callable
  /\ Call("simplex", Len(y), Simplex(y).out, Simplex(y).ok)

\* unsigned int k_choose_2 = (k * (k-1)) / 2
k_choose_2(k) == (k * (k - 1)) \div 2

\* What factor_cov_matrix(cpcs, sds, y) may leave in the arrays the writer
\* allocated (k_choose_2 partial correlations, k scales) and return.
Factorings(k) ==
  [successful : BOOLEAN,
   cpcs : {[n \in 1..k_choose_2(k) |-> Real("cpc", n, k)]},
   sds : {[n \in 1..k |-> Real("sd", v, n)] : v \in {One, 2 * One}}]

\* the asserts on the matrix's shape
SquareNonEmpty(y) == y.rows > 0 /\ y.cols = y.rows

corr_matrix_unconstrain(y, f) ==
  LET k == y.rows
      ok == /\ SquareNonEmpty(y)
            /\ \A n \in 1..k : Abs(f.sds[n].x - One) < CONSTRAINT_TOLERANCE
            /\ f.successful
  IN  /\ Callable
      /\ Call("corr_matrix", k,
              IF ok THEN [n \in 1..k_choose_2(k) |-> f.cpcs[n]] ELSE <<>>, ok)

cov_matrix_unconstrain(y, f) ==
  LET k == y.rows
      ok == SquareNonEmpty(y) /\ f.successful
  IN  /\ Callable
      /\ Call("cov_matrix", k,
              IF ok THEN [n \in 1..k_choose_2(k) |-> f.cpcs[n]]
                         \o [n \in 1..k |-> f.sds[n]]
              ELSE <<>>, ok)

WriterNext ==
  \/ \E y \in Scalars : scalar_unconstrain(y)
  \/ \E y \in Scalars : scalar_pos_unconstrain(y)
  \/ \E lb \in Bounds, y \in Scalars : scalar_lb_unconstrain(lb, y)
  \/ \E ub \in Bounds, y \in Scalars : scalar_ub_unconstrain(ub, y)
  \/ \E lb \in Bounds, ub \in Bounds, y \in Scalars :
       scalar_lub_unconstrain(lb, ub, y)
  \/ \E y \in Scalars : corr_unconstrain(y)
  \/ \E y \in Scalars : prob_unconstrain(y)
  \/ \E y \in Vectors : pos_ordered_unconstrain(y)
  \/ \E y \in Vectors : simplex_unconstrain(y)
  \/ \E y \in Matrices : \E f \in Factorings(y.rows) :
       corr_matrix_unconstrain(y, f)
  \/ \E y \in Matrices : \E f \in Factorings(y.rows) :
       cov_matrix_unconstrain(y, f)

WriterSpec == WriterInit /\ [][WriterNext]_vars

(***************************************************************************)
(* The claims about the writer.                                            *)
(***************************************************************************)
\* the number of reals the documentation gives a transform of size K
DocumentedCount(op, K) ==
  CASE op = "pos_ordered" -> K
    [] op = "simplex" -> K - 1
    [] op = "corr_matrix" -> (K * (K - 1)) \div 2
    [] op = "cov_matrix" -> (K * (K - 1)) \div 2 + K
    [] OTHER -> 1

\* C1: after any sequence of unconstrain calls the caller's real buffer is its
\* contents at construction followed by the outputs of every call, in order.
C1_CallerBufferReceivesOutputs == caller_r = init_r \o outputs

\* C6: when a call fails, the real buffer is what it was before that call.
C6_NoPartialOutput == failed => data_r_ = last_call.before

\* C8: one call on a valid input grows the real buffer by the documented
\* count and leaves the integer buffer as it was at construction.
C8_DocumentedCount ==
  (calls > 0 /\ ~failed) =>
    /\ Len(data_r_) =
         Len(last_call.before) + DocumentedCount(last_call.op, last_call.size)
    /\ data_i_ = caller_i

\* a covariance matrix and a simplex, each of a size with several outputs
C8_Witness ==
  /\ calls = 2
  /\ ~failed
  /\ last_call.op = "cov_matrix"
  /\ last_call.size = 2
  /\ Len(last_call.before) >= 2
  /\ last_call.before[Len(last_call.before)].f = "log-log"

=============================================================================
